---- MODULE Spec2Model ----
(***************************************************************************)
(* Session management and request dispatch of RestClient                   *)
(* (Cinder/Queens/rest_client.py): login / relogin / logout, do_call       *)
(* behind the semaphore, and call() with its relogin-and-resend-once       *)
(* protocol under the reader-writer lock call_lock.                        *)
(*                                                                         *)
(* Values.  None is the empty tuple.  The n-th authenticating response of  *)
(* the array carries deviceid <<n>> and iBaseToken <<n>>, so that fields   *)
(* installed from different responses can be told apart; the session the   *)
(* driver's setup may have installed before the threads start is number 0. *)
(* A base URL is <<endpoint, n>> (item_url + device_id); <<endpoint>> is   *)
(* the absolute login URL of an endpoint.                                  *)
(*                                                                         *)
(* Outcome codes are symbolic: "ok" is 0, "connect" is                     *)
(* ERROR_CONNECT_TO_SERVER, "unauth" is ERROR_UNAUTHORIZED_TO_SERVER,      *)
(* "pass" is any member of RELOGIN_ERROR_PASS and "domain" any other       *)
(* non-zero code (an HTTP error status included).                          *)
(***************************************************************************)
EXTENDS Integers, Sequences, FiniteSets, TLC

\* Number of threads sharing the client.
NThreads == 2
\* Length of san_address, the ordered endpoint list.
NEndpoints == 2
\* Number of authenticating responses the array gives during a run.
MaxAuth == 2
\* threading.Semaphore(20)
SemaphoreValue == 20
\* A scaled-down semaphore value: with it NThreads callers use up the
\* permits, which 20 permits never let them do.
SmallGate == 1

Threads == 1..NThreads
san_address == 1..NEndpoints
None == <<>>

\* The verbs a caller may pass: one accepted, one not.
Methods == {"GET", "PATCH"}

\* What one send can produce.
CallOutcomes == {"ok", "connect", "unauth", "pass", "domain", "badjson"}
AuthOutcomes == {"fail", "nodata", "badjson", "normal", "expired"}

VARIABLES
    url,          \* self.url
    iBaseToken,   \* self.session.headers.get('iBaseToken')
    device_id,    \* self.device_id
    semaphore,    \* permits left in self.semaphore
    capacity,     \* the value self.semaphore was constructed with
    configured,   \* the endpoints in self.san_address: none, or all of them
    call_lock,    \* self.call_lock: [readers, writer, pending], writer 0
                  \* when free, pending the queue of waiting writers
    nextAuth,     \* number of the array's next authenticating response
    th,           \* per thread: position and locals
    hist          \* per thread: what the running call() has done so far

vars == <<url, iBaseToken, device_id, semaphore, capacity, configured,
          call_lock, nextAuth, th, hist>>

session == <<url, iBaseToken, device_id>>

\* An outcome is its error code and the send its body came from.
NoResult == [code |-> "none", data |-> "none"]
Unauthorized == [code |-> "unauth", data |-> "none"]
Raised == [code |-> "raised", data |-> "none"]
\* A request as sent: the URL it goes to and the token header it carries.
NoRequest == [url |-> None, token |-> None]

IdleThread ==
    [pc |-> "idle", op |-> "none", method |-> "GET", kind |-> "none",
     old_token |-> None, result |-> NoResult, relogin_result |-> FALSE,
     item |-> 0, l_device_id |-> None, accountstate |-> "none",
     req_url |-> None, req |-> NoRequest]

\* sends/resends: sends of the caller's request; relogins, logins: calls of
\* relogin() and login(); auths, logouts: login and logout sends; adopts:
\* authenticating responses received; first: the outcome of the first
\* attempt; pre: the session when relogin() was entered; second: the code
\* the resend came back with, before call() looks at it.
NoHist ==
    [sends |-> 0, resends |-> 0, relogins |-> 0, logins |-> 0, auths |-> 0,
     adopts |-> 0, logouts |-> 0, first |-> NoResult, pre |-> None,
     second |-> "none", exc |-> "none", order |-> <<>>, answers |-> <<>>]

----------------------------------------------------------------------------
(* Decisions of the code, one operator each. *)

\* Mutant: every verb is sent.
MethodAccepted_Any(m) == TRUE

\* do_call: the verb selects a session function or is rejected.
MethodAccepted(m) == m \in {"None", "POST", "PUT", "GET", "DELETE"}

\* Mutant: the request is sent without waiting for a permit.
PermitFree_NoWait(sem) == TRUE

\* Mutant: call() sends whether or not a URL is set.
SessionActive_Always(u) == TRUE

\* Mutant: call() never finds a URL set.
SessionActive_Never(u) == FALSE

\* call(), logout(): if self.url
SessionActive(u) == u # None

\* semaphore.acquire() returns only when a permit is left.
PermitFree(sem) == sem > 0

\* Mutant: a reader enters whether or not a writer is active.
ReadLockFree_IgnoreWriter(lock) == TRUE

\* Mutant: the read lock is granted to one reader at a time.
ReadLockFree_Exclusive(lock) == lock.writer = 0 /\ lock.readers = {}

\* ReaderWriterLock.read_lock(): no active writer.
ReadLockFree(lock) == lock.writer = 0

\* Mutant: leaving the with-block keeps the read lock.
ReadUnlock_Keep(lock, t) == lock

\* Leaving `with self.call_lock.read_lock()`, by return or by exception.
ReadUnlock(lock, t) == [lock EXCEPT !.readers = @ \ {t}]

\* Mutant: the write lock is granted while readers hold the lock.
WriteLockFree_IgnoreReaders(lock) == lock.writer = 0

\* ReaderWriterLock.write_lock(): no readers and no active writer.
WriteLockFree(lock) == lock.readers = {} /\ lock.writer = 0

\* Mutant: every non-zero code leads to relogin.
NeedsRelogin_AnyError(code) == code \notin {"ok", "raised"}

\* Mutant: a connect failure is returned without relogin.
NeedsRelogin_UnauthOnly(code) == code = "unauth"

\* call(): the two codes that lead to relogin.
NeedsRelogin(code) == code \in {"connect", "unauth"}

\* Mutant: relogin() runs login() without looking at the token.
MustLogin_Always(u, tok, old) == TRUE

\* relogin(): login() is run when no URL is set or the token is still the
\* caller's.
MustLogin(u, tok, old) == u = None \/ old = tok

\* login(): a response is adopted when its code is 0 and it has data.
Authenticates(o) == o \in {"normal", "expired"}

\* Mutant: the resend's code is returned as received.
ResendCode_AsReceived(code) == code

\* call(): a resend code in RELOGIN_ERROR_PASS is reported as 0.
ResendCode(code) == IF code = "pass" THEN "ok" ELSE code

\* do_call: the URL the request goes to.  A path is appended to self.url
\* when it is set; the login URL is absolute already.  None stands for a
\* URL that cannot be requested (a bare path, or self.url + login URL).
ResolveUrl(u, kind, item) ==
    IF u # None
    THEN IF kind = "auth" THEN None ELSE u
    ELSE IF kind = "auth" THEN <<item>> ELSE None

----------------------------------------------------------------------------
Init ==
    /\ \E s \in {<<None, None, None>>, <<(<<1, 0>>), <<0>>, <<0>>>>} :
          /\ url = s[1]
          /\ iBaseToken = s[2]
          /\ device_id = s[3]
    /\ configured \in {{}, san_address}
    /\ url # None => configured # {}
    /\ capacity \in {SmallGate, SemaphoreValue}
    /\ semaphore = capacity
    /\ call_lock = [readers |-> {}, writer |-> 0, pending |-> <<>>]
    /\ nextAuth = 1
    /\ th = [t \in Threads |-> IdleThread]
    /\ hist = [t \in Threads |-> NoHist]

----------------------------------------------------------------------------
(* call(), first attempt *)

\* A caller enters call(url, data, method).
CallStart(t, m) ==
    /\ th[t].pc = "idle"
    /\ th' = [th EXCEPT ![t].pc = "call_rlock", ![t].op = "call",
                        ![t].method = m]
    /\ UNCHANGED <<url, iBaseToken, device_id, semaphore, capacity, configured,
                   call_lock, nextAuth, hist>>

\* with self.call_lock.read_lock(): if self.url: old_token = ...; do_call
\* else: the unauthorized outcome is made up and the lock is left at once.
CallReadLock(t) ==
    /\ th[t].pc = "call_rlock"
    /\ ReadLockFree(call_lock)
    /\ IF SessionActive(url)
       THEN /\ call_lock' = [call_lock EXCEPT !.readers = @ \cup {t}]
            /\ th' = [th EXCEPT ![t].old_token = iBaseToken,
                                ![t].kind = "first", ![t].pc = "do_call"]
            /\ UNCHANGED hist
       ELSE /\ th' = [th EXCEPT ![t].old_token = None,
                                ![t].result = Unauthorized,
                                ![t].pc = IF NeedsRelogin(Unauthorized.code)
                                          THEN "call_wlock" ELSE "call_ret"]
            /\ hist' = [hist EXCEPT ![t].first = Unauthorized]
            /\ UNCHANGED call_lock
    /\ UNCHANGED <<url, iBaseToken, device_id, semaphore, capacity,
                   configured, nextAuth>>

----------------------------------------------------------------------------
(* do_call() *)

\* The verb of the running do_call: login() passes none, logout() DELETE.
DoCallMethod(r) ==
    CASE r.kind = "auth" -> "None"
      [] r.kind = "logout" -> "DELETE"
      [] OTHER -> r.method

\* The URL is resolved and the verb checked.  A rejected verb raises; the
\* exception leaves call()'s with-block, which releases the read lock.
DoCallBegin(t) ==
    /\ th[t].pc = "do_call"
    /\ IF MethodAccepted(DoCallMethod(th[t]))
       THEN /\ th' = [th EXCEPT
                        ![t].req_url = ResolveUrl(url, th[t].kind, th[t].item),
                        ![t].pc = "sem_acquire"]
            /\ UNCHANGED call_lock
       ELSE /\ th' = [th EXCEPT ![t].result = Raised, ![t].kind = "none",
                                ![t].pc = "call_ret"]
            /\ call_lock' = ReadUnlock(call_lock, t)
    /\ UNCHANGED <<url, iBaseToken, device_id, semaphore, capacity, configured,
                   nextAuth, hist>>

\* self.semaphore.acquire(), then the request goes out with the session's
\* headers.
DoCallAcquire(t) ==
    /\ th[t].pc = "sem_acquire"
    /\ PermitFree(semaphore)
    /\ semaphore' = semaphore - 1
    /\ th' = [th EXCEPT ![t].pc = "in_flight",
                        ![t].req = [url |-> th[t].req_url,
                                    token |-> iBaseToken]]
    /\ hist' = [hist EXCEPT
                 ![t].sends = @ + (IF th[t].kind = "first" THEN 1 ELSE 0),
                 ![t].resends = @ + (IF th[t].kind = "resend" THEN 1 ELSE 0),
                 ![t].auths = @ + (IF th[t].kind = "auth" THEN 1 ELSE 0),
                 ![t].logouts = @ + (IF th[t].kind = "logout" THEN 1 ELSE 0),
                 ![t].order = IF th[t].kind = "auth"
                              THEN Append(@, th[t].item) ELSE @]
    /\ UNCHANGED <<url, iBaseToken, device_id, capacity,
                   configured, call_lock, nextAuth>>

\* Mutant: the permit is not given back.
Release_Forget(sem) == sem

\* finally: self.semaphore.release()
Release(sem) == sem + 1

\* A request to a URL that cannot be requested raises inside the try block.
CallOutcomeOf(r, o) == r.req.url # None \/ o = "connect"

----------------------------------------------------------------------------
(* call(): the first send returns *)

\* The first do_call returns (or raises on an unparsable body); the read
\* lock is released and the code decides between relogin and return.
CallFirstReturn(t, o) ==
    /\ th[t].pc = "in_flight"
    /\ th[t].kind = "first"
    /\ CallOutcomeOf(th[t], o)
    /\ semaphore' = Release(semaphore)
    /\ call_lock' = ReadUnlock(call_lock, t)
    /\ LET res == IF o = "badjson" THEN Raised
                  ELSE [code |-> o, data |-> "first"]
       IN /\ th' = [th EXCEPT ![t].result = res, ![t].kind = "none",
                              ![t].req_url = None, ![t].req = NoRequest,
                              ![t].pc = IF NeedsRelogin(res.code)
                                        THEN "call_wlock" ELSE "call_ret"]
          /\ hist' = [hist EXCEPT ![t].first = res]
    /\ UNCHANGED <<url, iBaseToken, device_id, capacity, configured, nextAuth>>

----------------------------------------------------------------------------
(* login(), entered from relogin() with the write lock held *)

\* Mutant: call() resends whatever relogin() returned.
ResendAfter_Always(relogin_result) == TRUE

\* Mutant: call() never resends.
ResendAfter_Never(relogin_result) == FALSE

\* What login()'s caller does when login() returns (ok) or raises.
\* relogin() turns an exception into False; call() releases the write lock
\* and resends only after True.
ResendAfter(relogin_result) == relogin_result

LoginEnd(t, ok, exc) ==
    CASE th[t].op = "try_login" ->
            \* except Exception: only a warning is logged
            /\ th' = [th EXCEPT ![t] = IdleThread]
            /\ hist' = [hist EXCEPT ![t] = NoHist]
            /\ UNCHANGED call_lock
      [] th[t].op = "hypermetro_login" ->
            \* check_hypermetro_exist: self.login(), then self.call() again
            /\ th' = [th EXCEPT ![t] =
                        IF ok THEN [IdleThread EXCEPT !.pc = "call_rlock",
                                                      !.op = "hypermetro2"]
                        ELSE IdleThread]
            /\ hist' = [hist EXCEPT ![t] = NoHist]
            /\ UNCHANGED call_lock
      [] OTHER ->
            /\ th' = [th EXCEPT ![t].relogin_result = ok, ![t].kind = "none",
                                ![t].req_url = None, ![t].req = NoRequest,
                                ![t].item = 0, ![t].l_device_id = None,
                                ![t].accountstate = "none",
                                ![t].pc = IF ResendAfter(ok)
                                          THEN "call_rlock2" ELSE "call_ret"]
            /\ call_lock' = [call_lock EXCEPT !.writer = 0]
            /\ hist' = [hist EXCEPT ![t].exc = exc]

\* The threads inside write_lock() that have not been granted the lock.
PendingWriters(lock) == {lock.pending[i] : i \in 1..Len(lock.pending)}

\* with self.call_lock.write_lock(): the caller joins the queue of pending
\* writers.
CallWriteLockEnter(t) ==
    /\ th[t].pc = "call_wlock"
    /\ t \notin PendingWriters(call_lock)
    /\ call_lock' = [call_lock EXCEPT !.pending = Append(@, t)]
    /\ UNCHANGED <<url, iBaseToken, device_id, semaphore, capacity, configured,
                   nextAuth, th, hist>>

\* with self.call_lock.write_lock(): relogin_result = self.relogin(old_token)
\* The lock goes to the first pending writer when it is free; relogin()
\* either enters login() or finds the session refreshed.
CallWriteLock(t) ==
    /\ th[t].pc = "call_wlock"
    /\ call_lock.pending # <<>>
    /\ Head(call_lock.pending) = t
    /\ WriteLockFree(call_lock)
    /\ IF MustLogin(url, iBaseToken, th[t].old_token)
       THEN /\ call_lock' = [call_lock EXCEPT !.writer = t,
                                              !.pending = Tail(@)]
            /\ th' = [th EXCEPT ![t].item = 1,
                                ![t].l_device_id = None,
                                ![t].pc = "login_loop"]
            /\ hist' = [hist EXCEPT ![t].relogins = @ + 1,
                                    ![t].logins = @ + 1,
                                    ![t].pre = session]
       ELSE /\ th' = [th EXCEPT ![t].relogin_result = TRUE,
                                ![t].pc = IF ResendAfter(TRUE)
                                          THEN "call_rlock2" ELSE "call_ret"]
            /\ hist' = [hist EXCEPT ![t].relogins = @ + 1,
                                    ![t].pre = session]
            /\ call_lock' = [call_lock EXCEPT !.pending = Tail(@)]
    /\ UNCHANGED <<url, iBaseToken, device_id, semaphore, capacity,
                   configured, nextAuth>>

\* init_http_head(): the URL is cleared and a new session (no token) made.
InitHttpHead == <<None, None>>

\* for item_url in self.san_address: init_http_head(), then the login
\* request; when the list is used up, device_id is None and login() raises.
LoginNext(t) ==
    /\ th[t].pc = "login_loop"
    /\ IF th[t].item \in configured
       THEN /\ url' = InitHttpHead[1]
            /\ iBaseToken' = InitHttpHead[2]
            /\ th' = [th EXCEPT ![t].kind = "auth", ![t].pc = "do_call"]
            /\ UNCHANGED <<call_lock, hist>>
       ELSE /\ LoginEnd(t, FALSE, "exhausted")
            /\ UNCHANGED <<url, iBaseToken>>
    /\ UNCHANGED <<device_id, semaphore, capacity, configured, nextAuth>>

\* Mutant: `continue` stays on the same endpoint.
NextItem_Repeat(item) == item

\* for item_url in self.san_address: the loop moves to the next endpoint.
NextItem(item) == item + 1

\* The array authenticates at most MaxAuth times, and never a request that
\* did not reach it.
AuthOutcomeOf(r, o) ==
    /\ r.req.url = None => o = "fail"
    /\ Authenticates(o) => nextAuth <= MaxAuth

\* The login request returns.  A failure or a body without data moves on
\* to the next endpoint; an unparsable body raises out of login(); an
\* authenticating response is kept for the three assignments that follow.
LoginAuthReturn(t, o) ==
    /\ th[t].pc = "in_flight"
    /\ th[t].kind = "auth"
    /\ AuthOutcomeOf(th[t], o)
    /\ semaphore' = Release(semaphore)
    /\ IF Authenticates(o)
       THEN /\ th' = [th EXCEPT ![t].l_device_id = <<nextAuth>>,
                                ![t].accountstate = o, ![t].kind = "none",
                                ![t].req_url = None, ![t].req = NoRequest,
                                ![t].pc = "login_set_device_id"]
            /\ nextAuth' = nextAuth + 1
            /\ hist' = [hist EXCEPT ![t].adopts = @ + 1,
                                    ![t].answers = Append(@, TRUE)]
            /\ UNCHANGED call_lock
       ELSE /\ IF o = "badjson"
               THEN LoginEnd(t, FALSE, "json")
               ELSE /\ th' = [th EXCEPT ![t].item = NextItem(@),
                                        ![t].kind = "none",
                                        ![t].req_url = None,
                                        ![t].req = NoRequest,
                                        ![t].pc = "login_loop"]
                    /\ hist' = [hist EXCEPT ![t].answers = Append(@, FALSE)]
                    /\ UNCHANGED call_lock
            /\ UNCHANGED nextAuth
    /\ UNCHANGED <<url, iBaseToken, device_id, capacity, configured>>

\* self.device_id = device_id
LoginSetDeviceId(t) ==
    /\ th[t].pc = "login_set_device_id"
    /\ device_id' = th[t].l_device_id
    /\ th' = [th EXCEPT ![t].pc = "login_set_url"]
    /\ UNCHANGED <<url, iBaseToken, semaphore, capacity, configured, call_lock,
                   nextAuth, hist>>

\* self.url = item_url + device_id
LoginSetUrl(t) ==
    /\ th[t].pc = "login_set_url"
    /\ url' = <<th[t].item, th[t].l_device_id[1]>>
    /\ th' = [th EXCEPT ![t].pc = "login_set_token"]
    /\ UNCHANGED <<iBaseToken, device_id, semaphore, capacity,
                   configured, call_lock,
                   nextAuth, hist>>

\* self.session.headers['iBaseToken'] = ...; then the account state: an
\* expired or initial password goes to logout() (which sends only when
\* self.url is set) and raises; otherwise the loop breaks and login()
\* returns.
LoginSetToken(t) ==
    /\ th[t].pc = "login_set_token"
    /\ iBaseToken' = th[t].l_device_id
    /\ IF th[t].accountstate = "expired"
       THEN IF SessionActive(url)
            THEN /\ th' = [th EXCEPT ![t].kind = "logout", ![t].pc = "do_call"]
                 /\ UNCHANGED <<call_lock, hist>>
            ELSE LoginEnd(t, FALSE, "expired")
       ELSE LoginEnd(t, TRUE, "none")
    /\ UNCHANGED <<url, device_id, semaphore, capacity, configured, nextAuth>>

\* login() after logout(): an unparsable body raises out of do_call,
\* _assert_rest_result raises on a non-zero code, and login() raises the
\* expired-password error when logout() returned.
LogoutRaises(o) ==
    CASE o = "badjson" -> "json"
      [] o = "ok" -> "expired"
      [] OTHER -> "logout"

\* logout()'s request returns: _assert_rest_result raises on a non-zero
\* code, login() raises after it otherwise.
LogoutReturn(t, o) ==
    /\ th[t].pc = "in_flight"
    /\ th[t].kind = "logout"
    /\ CallOutcomeOf(th[t], o)
    /\ semaphore' = Release(semaphore)
    /\ IF th[t].op = "logout"
       THEN \* logout() called on its own: it returns or raises to its caller
            /\ th' = [th EXCEPT ![t].kind = "none", ![t].req_url = None,
                                ![t].req = NoRequest,
                                ![t].result = IF o = "ok" THEN NoResult
                                              ELSE Raised,
                                ![t].pc = "logout_ret"]
            /\ hist' = [hist EXCEPT
                          ![t].first = [code |-> o, data |-> "logout"]]
            /\ UNCHANGED call_lock
       ELSE LoginEnd(t, FALSE, LogoutRaises(o))
    /\ UNCHANGED <<url, iBaseToken, device_id, capacity, configured, nextAuth>>

----------------------------------------------------------------------------
(* call(): the resend *)

\* with self.call_lock.read_lock(): result = self.do_call(...)
CallReadLock2(t) ==
    /\ th[t].pc = "call_rlock2"
    /\ ReadLockFree(call_lock)
    /\ call_lock' = [call_lock EXCEPT !.readers = @ \cup {t}]
    /\ th' = [th EXCEPT ![t].kind = "resend", ![t].pc = "do_call"]
    /\ UNCHANGED <<url, iBaseToken, device_id, semaphore, capacity, configured,
                   nextAuth, hist>>

\* Mutant: a failing resend goes back to relogin.
AfterResend_Retry(code) ==
    IF code \in {"connect", "unauth"} THEN "call_wlock" ELSE "call_ret"

\* Where call() goes after the resend: it returns, whatever the code.
AfterResend(code) == "call_ret"

\* The resend returns; a code of RELOGIN_ERROR_PASS becomes 0.
CallResendReturn(t, o) ==
    /\ th[t].pc = "in_flight"
    /\ th[t].kind = "resend"
    /\ CallOutcomeOf(th[t], o)
    /\ semaphore' = Release(semaphore)
    /\ call_lock' = ReadUnlock(call_lock, t)
    /\ th' = [th EXCEPT
                ![t].result = IF o = "badjson" THEN Raised
                              ELSE [code |-> ResendCode(o), data |-> "resend"],
                ![t].kind = "none", ![t].req_url = None, ![t].req = NoRequest,
                ![t].pc = IF o = "badjson" THEN "call_ret" ELSE AfterResend(o)]
    /\ hist' = [hist EXCEPT ![t].second = o]
    /\ UNCHANGED <<url, iBaseToken, device_id, capacity, configured, nextAuth>>

\* return result
CallReturn(t) ==
    /\ th[t].pc = "call_ret"
    /\ th[t].op # "hypermetro"
    /\ th' = [th EXCEPT ![t] = IdleThread]
    /\ hist' = [hist EXCEPT ![t] = NoHist]
    /\ UNCHANGED <<url, iBaseToken, device_id, semaphore, capacity, configured,
                   call_lock, nextAuth>>

----------------------------------------------------------------------------
Next ==
    \E t \in Threads :
        \/ \E m \in Methods : CallStart(t, m)
        \/ CallReadLock(t)
        \/ DoCallBegin(t)
        \/ DoCallAcquire(t)
        \/ \E o \in CallOutcomes : CallFirstReturn(t, o)
        \/ CallWriteLockEnter(t)
        \/ CallWriteLock(t)
        \/ LoginNext(t)
        \/ \E o \in AuthOutcomes : LoginAuthReturn(t, o)
        \/ LoginSetDeviceId(t)
        \/ LoginSetUrl(t)
        \/ LoginSetToken(t)
        \/ \E o \in CallOutcomes : LogoutReturn(t, o)
        \/ CallReadLock2(t)
        \/ \E o \in CallOutcomes : CallResendReturn(t, o)
        \/ CallReturn(t)

Spec == Init /\ [][Next]_vars

----------------------------------------------------------------------------
(* The entry points that reach login() without call(): try_login() and     *)
(* check_hypermetro_exist().  Neither takes call_lock.                     *)

\* try_login(): self.login() inside try/except.
TryLoginStart(t) ==
    /\ th[t].pc = "idle"
    /\ th' = [th EXCEPT ![t].pc = "login_loop", ![t].op = "try_login",
                        ![t].item = 1]
    /\ hist' = [hist EXCEPT ![t].logins = @ + 1, ![t].pre = session]
    /\ UNCHANGED <<url, iBaseToken, device_id, semaphore, capacity, configured,
                   call_lock, nextAuth>>

\* check_hypermetro_exist(): result = self.call(url, None, "GET")
HypermetroStart(t) ==
    /\ th[t].pc = "idle"
    /\ th' = [th EXCEPT ![t].pc = "call_rlock", ![t].op = "hypermetro"]
    /\ UNCHANGED <<url, iBaseToken, device_id, semaphore, capacity, configured,
                   call_lock, nextAuth, hist>>

\* check_hypermetro_exist(): after the first call(), one of the two codes
\* leads to self.login(); an exception of call() and any other code end it.
HypermetroAfterCall(t) ==
    /\ th[t].pc = "call_ret"
    /\ th[t].op = "hypermetro"
    /\ IF NeedsRelogin(th[t].result.code)
       THEN /\ th' = [th EXCEPT ![t] =
                        [IdleThread EXCEPT !.pc = "login_loop",
                                           !.op = "hypermetro_login",
                                           !.item = 1]]
            /\ hist' = [hist EXCEPT ![t] =
                          [NoHist EXCEPT !.logins = 1, !.pre = session]]
       ELSE /\ th' = [th EXCEPT ![t] = IdleThread]
            /\ hist' = [hist EXCEPT ![t] = NoHist]
    /\ UNCHANGED <<url, iBaseToken, device_id, semaphore, capacity, configured,
                   call_lock, nextAuth>>

\* The threads that use these entry points; the others only use call().
DirectCallers == {1}

NextAll ==
    \/ Next
    \/ \E t \in DirectCallers :
          \/ TryLoginStart(t)
          \/ HypermetroStart(t)
          \/ HypermetroAfterCall(t)

\* logout() called on its own: with a URL set one DELETE /sessions goes to
\* do_call, otherwise logout() returns at once.  No lock is taken.
LogoutStart(t) ==
    /\ th[t].pc = "idle"
    /\ th' = [th EXCEPT ![t].op = "logout",
                        ![t].kind = IF SessionActive(url) THEN "logout"
                                    ELSE "none",
                        ![t].pc = IF SessionActive(url) THEN "do_call"
                                  ELSE "logout_ret"]
    /\ hist' = [hist EXCEPT ![t].pre = session]
    /\ UNCHANGED <<url, iBaseToken, device_id, semaphore, capacity, configured,
                   call_lock, nextAuth>>

\* logout() has returned or raised.
LogoutEnd(t) ==
    /\ th[t].pc = "logout_ret"
    /\ th' = [th EXCEPT ![t] = IdleThread]
    /\ hist' = [hist EXCEPT ![t] = NoHist]
    /\ UNCHANGED <<url, iBaseToken, device_id, semaphore, capacity, configured,
                   call_lock, nextAuth>>

\* call() of every thread, and logout() called on its own.
NextLogout ==
    \/ Next
    \/ \E t \in DirectCallers :
          \/ LogoutStart(t)
          \/ LogoutEnd(t)

SpecLogout == Init /\ [][NextLogout]_vars

\* The client as constructed: threading.Semaphore(20).
InitAll == Init /\ capacity = SemaphoreValue

SpecAll == InitAll /\ [][NextAll]_vars

----------------------------------------------------------------------------
(* Properties *)

\* The threads with a send in flight (between acquire and release).
InFlight == {t \in Threads : th[t].pc = "in_flight"}

\* The first attempt of t's call() was a real send that has returned o.
FirstSent(t) == hist[t].first.data = "first"

\* C2: within one call(), relogin() is invoked at most once and the
\* request is sent at most twice: one first send and at most one resend,
\* also when the resend returns connect-failure or unauthorized.
C2_AtMostOneReloginOneResend ==
    \A t \in Threads :
        /\ hist[t].relogins <= 1
        /\ hist[t].sends <= 1
        /\ hist[t].resends <= 1
        /\ (th[t].result.data = "resend" /\ NeedsRelogin(th[t].result.code))
              => th[t].pc = "call_ret"

C2_Witness ==
    \E t \in Threads :
        /\ th[t].pc = "call_ret"
        /\ th[t].result = [code |-> "unauth", data |-> "resend"]
        /\ hist[t].sends = 1 /\ hist[t].resends = 1 /\ hist[t].relogins = 1

\* C3: the number of sends in flight (first sends, resends, login sends,
\* logout sends) never exceeds the value the semaphore was made with,
\* which is 20 in the client as constructed.
C3_InFlightWithinCapacity ==
    /\ Cardinality(InFlight) <= capacity
    /\ capacity = SemaphoreValue => Cardinality(InFlight) <= 20

C3_Witness ==
    /\ Cardinality(InFlight) = capacity
    /\ \E t \in Threads : th[t].pc = "sem_acquire" /\ t \in call_lock.readers
    /\ \E t \in InFlight : t \in call_lock.readers

\* C5: a first send that returns a non-zero code other than the two
\* sentinels ends the call: that outcome is returned as it is, after one
\* send, with no relogin() and no login().
C5_DomainErrorReturnedAfterOneSend ==
    \A t \in Threads :
        (FirstSent(t) /\ hist[t].first.code \in {"pass", "domain"}) =>
            /\ th[t].pc = "call_ret"
            /\ th[t].result = hist[t].first
            /\ hist[t].sends = 1 /\ hist[t].resends = 0
            /\ hist[t].relogins = 0 /\ hist[t].logins = 0
            /\ hist[t].auths = 0

C5_Witness ==
    \E t \in Threads :
        /\ th[t].pc = "call_ret"
        /\ th[t].result = [code |-> "domain", data |-> "first"]
        /\ hist[t].sends = 1

\* C10: when the first attempt ends in connect-failure or unauthorized and
\* relogin() fails, call() returns the first outcome unchanged and sends
\* nothing more.
C10_FailedReloginReturnsFirstOutcome ==
    \A t \in Threads :
        (th[t].pc = "call_ret" /\ hist[t].relogins = 1
            /\ ~th[t].relogin_result) =>
            /\ NeedsRelogin(hist[t].first.code)
            /\ th[t].result = hist[t].first
            /\ hist[t].resends = 0

C10_Witness ==
    \E t \in Threads :
        /\ th[t].pc = "call_ret" /\ hist[t].relogins = 1
        /\ ~th[t].relogin_result
        /\ th[t].result = [code |-> "connect", data |-> "first"]
        /\ hist[t].sends = 1 /\ hist[t].resends = 0

\* The made-up outcome differs from a received one by its data.
StartedActive(t) == hist[t].first # Unauthorized

\* C4 as stated: a call() on an active session none of whose sends returns
\* connect-failure or unauthorized makes exactly one send and no login().
C4_ExactlyOneSendPerCall ==
    \A t \in Threads :
        (th[t].pc = "call_ret" /\ StartedActive(t)
            /\ hist[t].first.code \notin {"connect", "unauth"}) =>
            /\ hist[t].sends + hist[t].resends = 1
            /\ hist[t].logins = 0

\* C4, amended: such a call() makes exactly one send when its verb is
\* accepted and none when it is not, and in both cases neither relogin()
\* nor login() is invoked and no login request is sent.
C4_OneSendPerAcceptedCall ==
    \A t \in Threads :
        (th[t].pc = "call_ret" /\ StartedActive(t)
            /\ hist[t].first.code \notin {"connect", "unauth"}) =>
            /\ hist[t].sends = (IF MethodAccepted(th[t].method) THEN 1 ELSE 0)
            /\ hist[t].resends = 0
            /\ hist[t].relogins = 0 /\ hist[t].logins = 0
            /\ hist[t].auths = 0

C4_Witness ==
    \A t \in Threads :
        /\ th[t].pc = "call_ret"
        /\ th[t].result = [code |-> "ok", data |-> "first"]
        /\ hist[t].sends = 1 /\ hist[t].logins = 0

\* url, token and device id all come from one authenticating response, or
\* no session is active.
SessionWhole ==
    \/ url = None /\ iBaseToken = None
    \/ url # None /\ iBaseToken = <<url[2]>> /\ device_id = iBaseToken

\* The request of a send in flight was built from one whole session.
RequestWhole(r) ==
    \/ r.url # None /\ r.token = <<r.url[2]>>
    \/ r.url = None /\ r.token = None

C7_WritesUnderWriteLock ==
    [][session' # session => call_lock.writer # 0]_vars

\* C8 as stated: a relogin() whose login() fails leaves url, token and
\* device id as they were when relogin() was entered.
C8_FailedReloginLeavesSession ==
    [][\A t \in Threads :
          (th[t].pc # "call_ret" /\ th'[t].pc = "call_ret"
              /\ hist[t].logins = 1 /\ ~th'[t].relogin_result)
          => session' = hist[t].pre]_vars

\* relogin() has been entered by t's call() and has decided.
ReloginDecided(t) ==
    /\ hist[t].relogins = 1
    /\ th[t].pc \notin {"call_wlock"}

\* C9 as stated: relogin() returns True without login() whenever the
\* session's token differs from the caller's or the URL is unset.
C9_SkipWhenTokenDiffersOrUrlUnset ==
    \A t \in Threads :
        (ReloginDecided(t)
            /\ (hist[t].pre[2] # th[t].old_token \/ hist[t].pre[1] = None))
        => hist[t].logins = 0

\* C9, amended: relogin() returns True without login() whenever the URL is
\* set and the session's token differs from the caller's; with the URL
\* unset it runs login().
C9_SkipWhenUrlSetAndTokenDiffers ==
    \A t \in Threads :
        ReloginDecided(t) =>
            IF hist[t].pre[1] # None /\ hist[t].pre[2] # th[t].old_token
            THEN /\ hist[t].logins = 0 /\ hist[t].auths = 0
                 /\ th[t].relogin_result
                 /\ th[t].pc \in {"call_rlock2", "do_call", "sem_acquire",
                                   "in_flight", "call_ret"}
            ELSE hist[t].logins = 1

C9_Witness ==
    \E t \in Threads :
        /\ ReloginDecided(t)
        /\ hist[t].pre[1] # None /\ hist[t].pre[2] # th[t].old_token
        /\ th[t].pc = "call_rlock2"
        /\ th[t].relogin_result /\ hist[t].logins = 0

\* t's call() captured a token, sent, and got one of the two sentinels.
StaleCaller(t) ==
    /\ FirstSent(t)
    /\ hist[t].first.code \in {"connect", "unauth"}

\* Every thread is such a caller and all captured the same token.
AllShareStaleToken ==
    /\ \A t \in Threads : StaleCaller(t)
    /\ \A t, u \in Threads : th[t].old_token = th[u].old_token

\* relogin() has returned in t's call().
ReloginReturned(t) ==
    /\ hist[t].relogins = 1
    /\ th[t].pc \in {"call_rlock2", "do_call", "sem_acquire", "in_flight",
                      "call_ret"}
    /\ th[t].kind \in {"none", "resend"}

RECURSIVE LoginSends(_)
LoginSends(S) ==
    IF S = {} THEN 0
    ELSE LET t == CHOOSE x \in S : TRUE
         IN hist[t].auths + LoginSends(S \ {t})

\* The callers whose login() got an authenticating response.
Adopters == {t \in Threads : hist[t].adopts > 0}

\* C1 as stated: when all callers captured the same token and got a
\* sentinel on the first send, exactly one login request is sent in all.
C1_ExactlyOneLoginSend ==
    (AllShareStaleToken /\ \A t \in Threads : ReloginReturned(t))
        => LoginSends(Threads) = 1

\* C1, amended: among such callers at most one login() gets an
\* authenticating response, and it gets one only; a caller whose login()
\* got none reports failure, and the next caller then runs login() again
\* (each run sending to one endpoint after the other), so the number of
\* login requests is not one in general.  Once a login() has
\* authenticated, the session keeps a URL and a token other than the
\* captured one, and the callers that enter relogin() then skip login().
C1_AtMostOneLoginAdopted ==
    AllShareStaleToken =>
        /\ Cardinality(Adopters) <= 1
        /\ \A t \in Threads :
              /\ hist[t].adopts <= 1
              /\ hist[t].auths <= NEndpoints
              /\ (ReloginReturned(t) /\ hist[t].logins = 1
                     /\ hist[t].adopts = 0) => ~th[t].relogin_result
        /\ \A u \in Adopters :
              ReloginReturned(u) =>
                  /\ url # None
                  /\ iBaseToken # th[u].old_token
                  /\ \A t \in Threads :
                        (ReloginReturned(t) /\ hist[t].pre[2] = iBaseToken)
                            => hist[t].logins = 0

C1_Witness ==
    /\ AllShareStaleToken
    /\ \A t \in Threads : ReloginReturned(t) /\ th[t].relogin_result
    /\ \E u \in Threads :
          /\ hist[u].adopts = 1 /\ hist[u].auths = 1
          /\ \A t \in Threads \ {u} :
                hist[t].logins = 0 /\ hist[t].auths = 0
    /\ LoginSends(Threads) = 1

\* C11: when the first send returns connect-failure or unauthorized and
\* relogin() succeeds, call() sends the request once more, with the verb
\* it was given, and what it returns is the resend's outcome, not the
\* first one: the resend's data, with the resend's code (0 for code 0).
C11_ResendOutcomeReturned ==
    \A t \in Threads :
        (StaleCaller(t) /\ ReloginReturned(t) /\ th[t].relogin_result) =>
            /\ hist[t].sends = 1
            /\ hist[t].resends <= 1
            /\ th[t].pc = "call_ret" =>
                  /\ hist[t].resends = 1
                  /\ hist[t].second # "none"
                  /\ hist[t].second # "badjson" =>
                        /\ th[t].result.data = "resend"
                        /\ hist[t].second # "pass" =>
                              th[t].result.code = hist[t].second
                  /\ hist[t].second = "badjson" => th[t].result = Raised

C11_Witness ==
    \E t \in Threads :
        /\ th[t].pc = "call_ret"
        /\ hist[t].first = [code |-> "connect", data |-> "first"]
        /\ th[t].relogin_result
        /\ th[t].result = [code |-> "ok", data |-> "resend"]
        /\ hist[t].second = "ok"
        /\ hist[t].sends = 1 /\ hist[t].resends = 1

\* C12: the code call() returns is set to 0 exactly when it comes from the
\* resend and is in RELOGIN_ERROR_PASS; such a code from the first send is
\* returned untouched, and any other resend code is returned as received.
C12_OnlyWhitelistedResendNormalized ==
    \A t \in Threads :
        th[t].pc = "call_ret" =>
            /\ th[t].result.data = "first" =>
                  /\ th[t].result = hist[t].first
                  /\ hist[t].second = "none"
            /\ th[t].result.data = "resend" =>
                  th[t].result.code =
                      (IF hist[t].second = "pass" THEN "ok"
                       ELSE hist[t].second)

C12_Witness ==
    \E t, u \in Threads :
        /\ th[t].pc = "call_ret" /\ th[u].pc = "call_ret"
        /\ hist[t].second = "pass"
        /\ th[t].result = [code |-> "ok", data |-> "resend"]
        /\ th[u].result = [code |-> "pass", data |-> "first"]

\* C13: a call() that finds no URL set sends nothing on its first
\* attempt: the unauthorized outcome is made up, relogin() is entered, and
\* the request is sent (once) only after relogin() returned True; after
\* False the made-up outcome is returned and nothing was sent.  A first
\* send is under way only while a URL is set.
C13_InactiveSessionSendsOnlyAfterRelogin ==
    \A t \in Threads :
        /\ (th[t].kind = "first" /\ t \in call_lock.readers) => url # None
        /\ FirstSent(t) => hist[t].sends = 1
        /\ hist[t].first = Unauthorized =>
              /\ hist[t].sends = 0
              /\ th[t].pc # "call_wlock" => hist[t].relogins = 1
              /\ hist[t].resends <= 1
              /\ hist[t].resends = 1 => th[t].relogin_result
              /\ th[t].pc = "call_ret" =>
                    IF th[t].relogin_result
                    THEN hist[t].resends =
                             (IF MethodAccepted(th[t].method) THEN 1 ELSE 0)
                    ELSE /\ th[t].result = Unauthorized
                         /\ hist[t].resends = 0

C13_Witness ==
    \E t, u \in Threads :
        /\ th[t].pc = "call_ret" /\ th[u].pc = "call_ret"
        /\ hist[t].first = Unauthorized /\ hist[u].first = Unauthorized
        /\ th[t].relogin_result /\ hist[t].sends = 0 /\ hist[t].resends = 1
        /\ hist[t].logins = 1
        /\ ~th[u].relogin_result /\ th[u].result = Unauthorized
        /\ hist[u].sends = 0 /\ hist[u].resends = 0 /\ hist[u].logins = 1

\* C14: login() sends its k-th authentication request to the k-th
\* endpoint of san_address, passes over no response that has code 0 and a
\* data body, sends no authentication request after such a response, and
\* sets the URL to the endpoint that gave it.
C14_LoginInListOrderFirstAdopted ==
    \A t \in Threads :
        /\ hist[t].order = [i \in 1..hist[t].auths |-> i]
        /\ hist[t].auths <= Cardinality(configured)
        /\ Len(hist[t].answers) \in {hist[t].auths, hist[t].auths - 1}
        /\ \A i \in 1..Len(hist[t].answers) :
              hist[t].answers[i] =>
                  /\ i = Len(hist[t].answers)
                  /\ i = hist[t].auths
                  /\ hist[t].adopts = 1
                  /\ th[t].kind # "auth"
        /\ (hist[t].adopts = 1 /\ call_lock.writer = t
                /\ th[t].pc \notin {"login_set_device_id", "login_set_url"}) =>
              /\ url # None
              /\ url[1] = hist[t].auths
        /\ (ReloginReturned(t) /\ th[t].relogin_result /\ hist[t].logins = 1)
              => hist[t].adopts = 1

C14_Witness ==
    \E t \in Threads :
        /\ th[t].pc = "login_set_token"
        /\ th[t].accountstate = "normal"
        /\ hist[t].order = [i \in 1..NEndpoints |-> i]
        /\ hist[t].answers = [i \in 1..NEndpoints |-> i = NEndpoints]
        /\ url = <<NEndpoints, th[t].l_device_id[1]>>

\* t's call() ran login() and login() has raised.
LoginFailed(t) ==
    /\ ReloginReturned(t)
    /\ hist[t].logins = 1
    /\ ~th[t].relogin_result

\* C15 as stated: a login() in which no endpoint authenticated has sent one
\* request to every configured endpoint and raised the all-URLs-failed
\* error (also with no endpoint configured).
C15_ExhaustedAfterEveryEndpoint ==
    \A t \in Threads :
        (LoginFailed(t) /\ hist[t].adopts = 0) =>
            /\ hist[t].exc = "exhausted"
            /\ hist[t].auths = Cardinality(configured)

\* C16 as stated: a login() whose endpoint authenticated with an expired
\* or initial password has sent one logout request and raised the
\* password-expired error, whatever the logout request returned, and has
\* sent no authentication request after it.
C16_ExpiredRaisedWhateverLogout ==
    \A t \in Threads :
        (LoginFailed(t) /\ hist[t].adopts = 1) =>
            /\ hist[t].logouts = 1
            /\ hist[t].exc = "expired"
            /\ Len(hist[t].answers) = hist[t].auths

\* C17: every send takes one permit before the request goes out and gives
\* one back when it returns, whatever it returns: the permits left plus
\* the sends in flight always make the capacity, so the count never
\* exceeds the capacity and all permits are there when nothing is in
\* flight.
C17_OnePermitPerSend ==
    /\ semaphore \in 0..capacity
    /\ semaphore + Cardinality(InFlight) = capacity
    /\ InFlight = {} => semaphore = capacity

C17_Witness ==
    /\ InFlight = {}
    /\ semaphore = capacity
    /\ \E t, u \in Threads :
          /\ hist[t].first = [code |-> "connect", data |-> "first"]
          /\ hist[t].exc = "json"
          /\ hist[u].first = [code |-> "domain", data |-> "first"]

\* t is inside the login() of a relogin(): between taking the write lock
\* and giving it back.
InRelogin(t) ==
    \/ th[t].pc \in {"login_loop", "login_set_device_id", "login_set_url",
                     "login_set_token"}
    \/ th[t].kind \in {"auth", "logout"}

\* t is inside the do_call of an ordinary request of call().
InOrdinarySend(t) ==
    /\ th[t].kind \in {"first", "resend"}
    /\ th[t].pc \in {"do_call", "sem_acquire", "in_flight"}

\* C18: among concurrent call()s at most one relogin() executes at a time,
\* it holds the write lock, and while it does no call() holds the read
\* lock, resolves the URL or has a request in flight.
C18_ReloginExcludesReadersAndWriters ==
    /\ Cardinality({t \in Threads : InRelogin(t)}) <= 1
    /\ \A t \in Threads :
          /\ InRelogin(t) <=> call_lock.writer = t
          /\ InOrdinarySend(t) <=> t \in call_lock.readers
    /\ call_lock.writer # 0 =>
          /\ call_lock.readers = {}
          /\ \A u \in Threads : ~InOrdinarySend(u)

C18_Witness ==
    \E t, u \in Threads :
        /\ call_lock.writer = t
        /\ th[t].pc = "in_flight" /\ th[t].kind = "auth"
        /\ th[u].pc = "call_wlock"
        /\ StaleCaller(u)

----------------------------------------------------------------------------
(* Fair scheduling *)

\* The steps of thread t once its call() has started.
ThreadStep(t) ==
    \/ CallReadLock(t)
    \/ DoCallBegin(t)
    \/ DoCallAcquire(t)
    \/ \E o \in CallOutcomes : CallFirstReturn(t, o)
    \/ CallWriteLockEnter(t)
    \/ CallWriteLock(t)
    \/ LoginNext(t)
    \/ \E o \in AuthOutcomes : LoginAuthReturn(t, o)
    \/ LoginSetDeviceId(t)
    \/ LoginSetUrl(t)
    \/ LoginSetToken(t)
    \/ \E o \in CallOutcomes : LogoutReturn(t, o)
    \/ CallReadLock2(t)
    \/ \E o \in CallOutcomes : CallResendReturn(t, o)
    \/ CallReturn(t)

\* Every send returns and every thread that can go on does go on.  A thread
\* in semaphore.acquire(), read_lock() or write_lock() waits on a condition
\* and tests again when it is woken: neither primitive hands the permit or
\* the lock to a waiter, so a waiter goes on for certain only if the
\* permit or the lock stays free.
FairSpec == Init /\ [][Next]_vars /\ \A t \in Threads : WF_vars(ThreadStep(t))

\* C19 as stated: under fair scheduling, with every send returning, every
\* call() that has started returns.
C19_EveryCallReturns ==
    \A t \in Threads : (th[t].pc # "idle") ~> (th[t].pc = "idle")

----------------------------------------------------------------------------
(* Waiting *)

\* t's call() has needed no relogin so far and cannot go on: it is in
\* read_lock() or in semaphore.acquire() of its first send and the lock or
\* the permit is not to be had.
OrdinaryCallWaits(t) ==
    \/ th[t].pc = "call_rlock" /\ ~ENABLED CallReadLock(t)
    \/ /\ th[t].pc = "sem_acquire" /\ th[t].kind = "first"
       /\ ~ENABLED DoCallAcquire(t)

\* C20 as stated: a call() that needs no relogin waits only while a
\* relogin is in progress.
C20_OnlyReloginMakesCallsWait ==
    \A t \in Threads : OrdinaryCallWaits(t) => call_lock.writer # 0

\* C20, amended: at the lock a call() that needs no relogin waits only
\* while a relogin holds the write lock, and readers already inside do not
\* keep it out; at the semaphore it waits only while every permit is
\* taken by a send in flight, and then no relogin is in progress: the
\* permits are held by other ordinary calls.
C20_WaitsForReloginOrFullGate ==
    \A t \in Threads :
        /\ th[t].pc = "call_rlock" =>
              /\ ~ENABLED CallReadLock(t) => call_lock.writer # 0
              /\ call_lock.writer = 0 => ENABLED CallReadLock(t)
        /\ (th[t].pc = "sem_acquire" /\ th[t].kind = "first"
                /\ ~ENABLED DoCallAcquire(t)) =>
              /\ semaphore = 0
              /\ Cardinality(InFlight) = capacity
              /\ call_lock.writer = 0
              /\ \A u \in InFlight : InOrdinarySend(u)

C20_Witness ==
    \E t, u \in Threads :
        /\ th[t].pc = "in_flight" /\ th[t].kind = "first"
        /\ t \in call_lock.readers
        /\ th[u].pc = "call_rlock" /\ hist[u].first = NoResult
        /\ ENABLED CallReadLock(u)
        /\ capacity = SemaphoreValue

----------------------------------------------------------------------------
(* Verbs *)

\* The verbs do_call has a session function for; no verb means POST.
SupportedVerbs == {"None", "POST", "PUT", "GET", "DELETE"}

\* C21: the step of do_call that finds an unsupported verb raises: the
\* semaphore, the URL, the token and the device id are as before, the
\* request is not counted as sent, and call() is left with the exception.
C21_UnsupportedVerbRaisesBeforeSend ==
    [][\A t \in Threads :
          (/\ th[t].pc = "do_call"
           /\ DoCallMethod(th[t]) \notin SupportedVerbs
           /\ th'[t] # th[t]) =>
              /\ th'[t].pc = "call_ret"
              /\ th'[t].result = Raised
              /\ semaphore' = semaphore
              /\ session' = session
              /\ hist' = hist
              /\ InFlight' = InFlight]_vars

C21_Witness ==
    \E t \in Threads :
        /\ th[t].pc = "call_ret"
        /\ th[t].method = "PATCH"
        /\ th[t].result = Raised
        /\ hist[t].first = NoResult
        /\ hist[t].sends = 0
        /\ url # None
        /\ semaphore = capacity

\* C22 as stated: a call() with an unsupported verb ends with the
\* exception of do_call's verb check, and no request, login or logout
\* send was made for it.
C22_UnsupportedVerbCallSendsNothing ==
    \A t \in Threads :
        (th[t].pc = "call_ret" /\ th[t].method \notin SupportedVerbs) =>
            /\ th[t].result = Raised
            /\ hist[t].logins = 0
            /\ hist[t].sends + hist[t].resends = 0
            /\ hist[t].auths + hist[t].logouts = 0

\* C23: a send that fails in transport is an outcome with the
\* connect-failure code, not an exception: after a first send it leads
\* to the write lock and relogin(), then to one resend when relogin()
\* returned True and to the return of that outcome when it returned
\* False; after a resend it is what call() returns.
C23_TransportFailureIsAnOutcome ==
    \A t \in Threads :
        /\ hist[t].first.code = "connect" =>
              /\ hist[t].first = [code |-> "connect", data |-> "first"]
              /\ th[t].pc = "call_wlock" \/ hist[t].relogins = 1
              /\ th[t].pc = "call_ret" =>
                    IF th[t].relogin_result
                    THEN hist[t].resends = 1
                    ELSE /\ th[t].result = hist[t].first
                         /\ hist[t].resends = 0
        /\ (hist[t].second = "connect" /\ th[t].pc = "call_ret") =>
              th[t].result = [code |-> "connect", data |-> "resend"]

C23_Witness ==
    \E t, u \in Threads :
        /\ th[t].pc = "call_ret" /\ th[u].pc = "call_ret"
        /\ hist[t].first = [code |-> "connect", data |-> "first"]
        /\ th[t].relogin_result /\ hist[t].second = "connect"
        /\ th[t].result = [code |-> "connect", data |-> "resend"]
        /\ hist[u].first = [code |-> "connect", data |-> "first"]
        /\ ~th[u].relogin_result /\ th[u].result = hist[u].first

----------------------------------------------------------------------------
(* logout() on its own *)

\* C24: logout() sends one DELETE /sessions request when a URL is set and
\* none otherwise; whatever that request returns, logout() neither takes
\* the write lock nor runs relogin() or login() nor sends again, and a
\* non-zero code (connect-failure and unauthorized too) or an unparsable
\* body is raised to its caller.
C24_LogoutSendsOnceNoRelogin ==
    \A t \in Threads :
        th[t].op = "logout" =>
            /\ th[t].pc \in {"do_call", "sem_acquire", "in_flight",
                             "logout_ret"}
            /\ t \notin PendingWriters(call_lock) /\ call_lock.writer # t
            /\ hist[t].relogins = 0 /\ hist[t].logins = 0
            /\ hist[t].sends + hist[t].resends + hist[t].auths = 0
            /\ hist[t].logouts <= 1
            /\ hist[t].pre[1] = None => hist[t].logouts = 0
            /\ th[t].pc = "logout_ret" =>
                  /\ hist[t].logouts = (IF hist[t].pre[1] = None THEN 0 ELSE 1)
                  /\ hist[t].logouts = 1 =>
                        (th[t].result = Raised <=> hist[t].first.code # "ok")
                  /\ hist[t].logouts = 0 => th[t].result = NoResult

C24_Witness ==
    \E t \in Threads :
        /\ th[t].op = "logout" /\ th[t].pc = "logout_ret"
        /\ hist[t].pre[1] # None
        /\ hist[t].logouts = 1
        /\ hist[t].first = [code |-> "unauth", data |-> "logout"]
        /\ th[t].result = Raised
        /\ url = hist[t].pre[1]

\* C30: no step of a logout() called on its own changes the URL, the
\* token or the device id, whatever its request returns; and a call()
\* that finds the URL set when it takes the read lock goes on to do_call
\* with the token that is there, it does not make up an unauthorized
\* outcome.
C30_LogoutLeavesSessionActive ==
    [][\A t \in Threads :
          /\ ((th[t].op = "logout" \/ th'[t].op = "logout")
                  /\ th'[t] # th[t]) => session' = session
          /\ (th[t].pc = "call_rlock" /\ th'[t] # th[t] /\ url # None) =>
                /\ th'[t].pc = "do_call"
                /\ th'[t].kind = "first"
                /\ th'[t].old_token = iBaseToken
                /\ hist'[t].first = NoResult]_vars

C30_Witness ==
    \E t, u \in Threads :
        /\ th[t].op = "logout" /\ th[t].pc = "logout_ret"
        /\ hist[t].logouts = 1
        /\ hist[t].first = [code |-> "ok", data |-> "logout"]
        /\ session = hist[t].pre
        /\ th[u].op = "call" /\ th[u].pc = "in_flight" /\ th[u].kind = "first"
        /\ th[u].req = [url |-> hist[t].pre[1], token |-> hist[t].pre[2]]

----------------------------------------------------------------------------
(* The session seen by a send *)

\* C25 as stated: whenever do_call resolves the URL for a send of the
\* caller's request, first send or resend, self.url is set.
C25_RequestSendsResolveAgainstUrl ==
    \A t \in Threads :
        (th[t].kind \in {"first", "resend"}
            /\ th[t].pc \in {"sem_acquire", "in_flight"}) =>
                th[t].req_url # None

\* C26: the step in which relogin(old_token) finds the URL set and a
\* token other than old_token leaves the URL, the token and the device
\* id as they are, sends nothing and takes no permit, does not enter
\* login(), and returns True.
C26_SkippedReloginChangesNothing ==
    [][\A t \in Threads :
          (/\ th[t].pc = "call_wlock" /\ th'[t] # th[t]
           /\ url # None /\ iBaseToken # th[t].old_token) =>
              /\ session' = session
              /\ semaphore' = semaphore
              /\ InFlight' = InFlight
              /\ th'[t].relogin_result
              /\ th'[t].pc = "call_rlock2"
              /\ call_lock'.writer = 0
              /\ hist'[t].logins = hist[t].logins
              /\ hist'[t].auths = hist[t].auths
              /\ hist'[t].logouts = hist[t].logouts]_vars

C26_Witness ==
    \E t, u \in Threads :
        /\ th[t].pc = "call_rlock2" /\ th[t].relogin_result
        /\ hist[t].relogins = 1 /\ hist[t].logins = 0
        /\ hist[t].auths = 0
        /\ session = hist[t].pre
        /\ url # None /\ iBaseToken # th[t].old_token
        /\ semaphore = capacity
        /\ hist[u].adopts = 1 /\ th[u].old_token = th[t].old_token

\* C27: the token call() stored as old_token is the token its first
\* request carries.
C27_CapturedTokenIsTokenSent ==
    \A t \in Threads :
        (th[t].pc = "in_flight" /\ th[t].kind = "first") =>
            /\ th[t].req.token = th[t].old_token
            /\ th[t].req.token = iBaseToken
            /\ t \in call_lock.readers

C27_Witness ==
    \E t, u \in Threads :
        /\ th[t].pc = "in_flight" /\ th[t].kind = "first"
        /\ th[t].req.token = th[t].old_token
        /\ th[t].old_token # None /\ th[t].old_token # <<0>>
        /\ th[u].pc = "call_wlock" /\ u \in PendingWriters(call_lock)

----------------------------------------------------------------------------
(* Locks and sends of one call() *)

\* C28: a thread that asks for the write lock, or waits for it, does not
\* hold the read lock; and a thread whose call() has ended, by return or
\* by an exception of do_call, holds neither the read lock nor the write
\* lock and is not queued for it.
C28_NoLockUpgradeNoLockKept ==
    \A t \in Threads :
        /\ (th[t].pc = "call_wlock" \/ t \in PendingWriters(call_lock)
                \/ call_lock.writer = t) => t \notin call_lock.readers
        /\ th[t].pc \in {"call_ret", "idle"} =>
              /\ t \notin call_lock.readers
              /\ call_lock.writer # t
              /\ t \notin PendingWriters(call_lock)

C28_Witness ==
    \E t, u \in Threads :
        /\ th[t].pc = "call_ret" /\ th[u].pc = "call_ret"
        /\ th[t].result = Raised /\ th[t].method = "PATCH"
        /\ hist[t].first = NoResult
        /\ th[u].result = Raised /\ hist[u].second = "badjson"
        /\ call_lock = [readers |-> {}, writer |-> 0, pending |-> <<>>]

\* C29: one call() sends its request at most twice, runs login() at most
\* once, and that login() sends at most one authentication request per
\* configured endpoint and at most one logout request.
C29_SendsOfOneCallBounded ==
    \A t \in Threads :
        /\ hist[t].sends + hist[t].resends <= 2
        /\ hist[t].logins <= 1
        /\ hist[t].auths <= hist[t].logins * Cardinality(configured)
        /\ hist[t].logouts <= hist[t].logins
        /\ hist[t].sends + hist[t].resends + hist[t].auths + hist[t].logouts
              <= 2 + Cardinality(configured) + 1

C29_Witness ==
    \E t, u \in Threads :
        /\ th[t].pc = "call_ret"
        /\ hist[t].sends = 1 /\ hist[t].resends = 1
        /\ hist[t].logins = 1 /\ hist[t].auths = NEndpoints
        /\ th[u].pc = "call_ret"
        /\ hist[u].auths = NEndpoints /\ hist[u].logouts = 1

====
